---- MODULE Spec2Model ----
(***************************************************************************)
(* A model of the duktape-rs bridge layer: Context (eval, call, register,  *)
(* drop), the value codec (get, push_old, from_lstring) and the callback   *)
(* trampoline rust_duk_callback, over an abstract Duktape value stack.     *)
(***************************************************************************)
EXTENDS Integers, Sequences, FiniteSets, TLC

VARIABLES
    heapSt,     \* heap handle -> "free" | "live" | "destroyed"
    destroyed,  \* heap handle -> number of duk_destroy_heap calls on it
    hostCtx,    \* heap handle -> [owner : BOOLEAN, borrowed : Nat], the Context values the host holds
    globals,    \* heap handle -> global object: name -> VM value
    vs,         \* heap handle -> value stack, a sequence of activation frames
    cstack,     \* the host thread's in-flight handlers (pending operations and dispatches)
    last,       \* the public operation that ended last, with its outcome
    disp,       \* the trampoline dispatch that ended last inside the current operation
    proc        \* "running" | "panicked" (unwinding) | "aborted"

vars == <<heapSt, destroyed, hostCtx, globals, vs, cstack, last, disp, proc>>

----------------------------------------------------------------------------
(* Bounds *)

\* trampoline dispatches that may be in flight at once
MaxDepth == 1
\* borrowed Contexts the host keeps per heap through from_borrowed_mut_ptr
MaxBorrowed == 1

(* Constants of the Duktape API the code names *)
DUK_EXEC_SUCCESS == 0
DUK_EXEC_ERROR == 1
DUK_VARARGS == -1
DUK_RET_ERROR == -100
DUK_RET_TYPE_ERROR == -105
DUK_ERR_ERROR == 100
DUK_ERR_REFERENCE_ERROR == 103
DUK_ERR_SYNTAX_ERROR == 104
DUK_ERR_TYPE_ERROR == 105

Heaps == {"h1"}

----------------------------------------------------------------------------
(* Host side: Value, DuktapeError, DuktapeResult *)

Undefined == [k |-> "Undefined"]
Null == [k |-> "Null"]
Bool(b) == [k |-> "Bool", b |-> b]
Number(n) == [k |-> "Number", n |-> n]
NumberNaN == [k |-> "Number", nan |-> TRUE]
String(s) == [k |-> "String", s |-> s]

Ok(v) == [k |-> "Ok", v |-> v]
Err(e) == [k |-> "Err", e |-> e]
Panic(why) == [k |-> "Panic", why |-> why]

\* texts, as sequences of code points; each fixed text is cut to its first letter
TxtCouldNotConvert == <<99>>
TxtCustomError == <<109>>
TxtEvalFileName == <<60>>
TxtCouldNotCreateHeap == <<67>>

DuktapeError_from_str(msg) == [code |-> DUK_ERR_ERROR, hasMsg |-> TRUE, msg |-> msg]
DuktapeError_from_code(code) == [code |-> code, hasMsg |-> FALSE, msg |-> <<>>]
err_code(e) == e.code
err_message(e) == [some |-> e.hasMsg, v |-> e.msg]

----------------------------------------------------------------------------
(* VM side: the values of the Duktape value stack *)

VUndef == [t |-> "undefined"]
VNull == [t |-> "null"]
VBool(b) == [t |-> "boolean", b |-> b]
VNum(n) == [t |-> "number", n |-> n]
VNaN == [t |-> "number", nan |-> TRUE]
VStr(bytes) == [t |-> "string", s |-> bytes]
VPlainObj == [t |-> "object", o |-> "plain"]
VGlobalObj == [t |-> "object", o |-> "global"]
VScriptFn(body) == [t |-> "function", body |-> body]
VNativeFn(nargs, rfn) == [t |-> "function", body |-> "native", nargs |-> nargs, rfn |-> rfn]
VPointer(p) == [t |-> "pointer", p |-> p]
VError(code) == [t |-> "error", code |-> code]

IsNaN(v) == "nan" \in DOMAIN v

\* duk_get_type: functions and error objects are objects
duk_get_type(v) == IF v.t \in {"function", "error", "object"} THEN "object" ELSE v.t

duk_is_callable(v) == v.t = "function"

----------------------------------------------------------------------------
(* The string codec: CESU-8 on code points below U+10000 *)

RECURSIVE to_cesu8(_)
to_cesu8(s) ==
    IF s = <<>> THEN <<>>
    ELSE LET c == Head(s)
             enc == IF c < 128 THEN <<c>>
                    ELSE IF c < 2048 THEN <<192 + (c \div 64), 128 + (c % 64)>>
                    ELSE <<224 + (c \div 4096), 128 + ((c \div 64) % 64), 128 + (c % 64)>>
         IN enc \o to_cesu8(Tail(s))

IsCont(b) == b \in 128..191

RECURSIVE from_cesu8(_)
from_cesu8(b) ==
    IF b = <<>> THEN [ok |-> TRUE, s |-> <<>>]
    ELSE IF b[1] < 128
    THEN LET r == from_cesu8(Tail(b))
         IN [ok |-> r.ok, s |-> <<b[1]>> \o r.s]
    ELSE IF b[1] \in 194..223 /\ Len(b) >= 2 /\ IsCont(b[2])
    THEN LET r == from_cesu8(SubSeq(b, 3, Len(b)))
         IN [ok |-> r.ok, s |-> <<(b[1] - 192) * 64 + (b[2] - 128)>> \o r.s]
    ELSE IF b[1] \in 224..239 /\ Len(b) >= 3 /\ IsCont(b[2]) /\ IsCont(b[3])
            /\ (b[1] - 224) * 4096 + (b[2] - 128) * 64 + (b[3] - 128) >= 2048
    THEN LET r == from_cesu8(SubSeq(b, 4, Len(b)))
         IN [ok |-> r.ok,
             s |-> <<(b[1] - 224) * 4096 + (b[2] - 128) * 64 + (b[3] - 128)>> \o r.s]
    ELSE [ok |-> FALSE, s |-> <<>>]

\* the byte values memory outside the VM string may hold: an ASCII letter, a
\* two-byte lead and a continuation byte
MemBytes == {65, 195, 169}

\* from_raw_parts(&ptr, len): the slice starts at the address of the local
\* `ptr`, not at `data`; its bytes are the pointer's own bytes and the host
\* stack after it, whatever the VM string holds
from_raw_parts(data, len) == [1..len -> MemBytes]

from_lstring(data, len) ==
    { LET r == from_cesu8(bytes)
      IN IF r.ok THEN Ok(r.s) ELSE Err(DuktapeError_from_str(TxtCouldNotConvert))
      : bytes \in from_raw_parts(data, len) }

----------------------------------------------------------------------------
(* The Duktape value stack of one activation, a sequence of VM values *)

duk_get_top(stk) == Len(stk)
duk_push(stk, v) == Append(stk, v)
duk_pop_n(stk, n) == SubSeq(stk, 1, Len(stk) - n)
duk_pop(stk) == duk_pop_n(stk, 1)
\* a stack index, from the bottom (0, 1, ...) or from the top (-1, -2, ...)
At(stk, idx) == IF idx < 0 THEN stk[Len(stk) + idx + 1] ELSE stk[idx + 1]

----------------------------------------------------------------------------
(* Context: the value codec *)

\* a Value::String whose Cow borrows the VM string in stack slot at
StringRef(at) == [k |-> "String", at |-> at]

\* a get that hands out the VM's string instead of a copy of it
get_borrows(stk, idx) ==
    LET v == At(stk, idx)
        ty == duk_get_type(v)
    IN CASE ty = "undefined" -> {Ok(Undefined)}
         [] ty = "null" -> {Ok(Null)}
         [] ty = "boolean" -> {Ok(Bool(v.b))}
         [] ty = "number" -> {Ok(IF IsNaN(v) THEN NumberNaN ELSE Number(v.n))}
         [] ty = "string" -> {Ok(StringRef(IF idx < 0 THEN Len(stk) + idx + 1 ELSE idx + 1))}
         [] OTHER -> {Panic("Cannot convert duktape data type")}

\* Context::get: the value at idx as a Value; a set, one result per memory content
\* from_lstring may read. A string is Cow::Owned: the Value holds its own copy
get(stk, idx) ==
    LET v == At(stk, idx)
        ty == duk_get_type(v)
    IN CASE ty = "undefined" -> {Ok(Undefined)}
         [] ty = "null" -> {Ok(Null)}
         [] ty = "boolean" -> {Ok(Bool(v.b))}
         [] ty = "number" -> {Ok(IF IsNaN(v) THEN NumberNaN ELSE Number(v.n))}
         [] ty = "string" ->
                { IF r.k = "Ok" THEN Ok(String(r.v)) ELSE r
                  : r \in from_lstring(v.s, Len(v.s)) }
         [] OTHER -> {Panic("Cannot convert duktape data type")}

\* Context::push_old
push_old(stk, val) ==
    CASE val.k = "Undefined" -> duk_push(stk, VUndef)
      [] val.k = "Null" -> duk_push(stk, VNull)
      [] val.k = "Bool" -> duk_push(stk, VBool(val.b))
      [] val.k = "Number" -> duk_push(stk, IF IsNaN(val) THEN VNaN ELSE VNum(val.n))
      [] val.k = "String" -> duk_push(stk, VStr(to_cesu8(val.s)))

\* the text duk_safe_to_lstring renders for the value at the top, as CESU-8
\* bytes; each text is cut to its first letter
duk_safe_to_lstring(v) ==
    CASE v.t = "error" /\ v.code = DUK_ERR_SYNTAX_ERROR -> <<83>>
      [] v.t = "error" /\ v.code = DUK_ERR_TYPE_ERROR -> <<84>>
      [] v.t = "error" -> <<69>>
      [] v.t = "string" -> v.s
      [] OTHER -> <<118>>

\* Context::get_result
get_result(stk, status) ==
    IF status = DUK_EXEC_SUCCESS
    THEN get(stk, -1)
    ELSE LET str == duk_safe_to_lstring(At(stk, -1))
         IN { IF m.k = "Ok" THEN Err(DuktapeError_from_str(m.v)) ELSE m
              : m \in from_lstring(str, Len(str)) }

\* pop_result without its duk_pop
pop_result_no_pop(stk, status) ==
    { [res |-> r, stk |-> stk] : r \in get_result(stk, status) }

\* Context::pop_result: the result and the stack it leaves; a panic in
\* get_result unwinds past the duk_pop
pop_result(stk, status) ==
    { [res |-> r, stk |-> IF r.k = "Panic" THEN stk ELSE duk_pop(stk)]
      : r \in get_result(stk, status) }

\* assert_stack_height_unchanged!: the body's outcome, or the panic of the
\* assert_eq! when the body returned at another height
assert_stack_height_unchanged(initial_stack_height, o) ==
    IF o.res.k # "Panic" /\ duk_get_top(o.stk) # initial_stack_height
    THEN [o EXCEPT !.res = Panic("assertion failed: stack height")]
    ELSE o

\* CString::new(name): fails on an interior NUL byte
CString_new(name) == IF \E i \in 1..Len(name) : name[i] = 0 THEN Err(name) ELSE Ok(name)

\* DuktapeEncodable::duktape_encode of one host argument through the Encoder:
\* pushes one value, or fails having pushed nothing
Unencodable == [k |-> "Unencodable"]
duktape_encode(stk, arg) ==
    IF arg.k = "Unencodable"
    THEN [res |-> Err(DuktapeError_from_str(<<>>)), stk |-> stk]
    ELSE [res |-> Ok(Undefined), stk |-> push_old(stk, arg)]

----------------------------------------------------------------------------
(* The guest side: the programs the host hands to the VM and what the VM does
   with them *)

\* names on the global object, as bytes: "sub", "id", and a name with an
\* interior NUL byte
NameSub == <<115, 117, 98>>
NameId == <<105, 100>>
NameNul == <<97, 0, 98>>
Names == {NameSub, NameId}

EmptyGlobals == [n \in Names |-> VUndef]
duk_get_prop(glob, name) == IF name \in DOMAIN glob THEN glob[name] ELSE VUndef

\* the host functions a program registers: those of test_callbacks, one that
\* returns its first argument, one that panics, and one that uses the Context
\* it is handed for one eval, call or register and returns what that returned
HostFns == {"rust_add", "rust_return_undefined", "rust_return_simple_error",
            "rust_return_custom_error", "rust_first", "rust_panic", "rust_nested"}

RECURSIVE SumNumbers(_)
SumNumbers(args) ==
    IF args = <<>> THEN Number(0)
    ELSE LET rest == SumNumbers(Tail(args))
             a == Head(args)
         IN IF a.k # "Number" THEN rest
            ELSE IF IsNaN(a) \/ IsNaN(rest) THEN NumberNaN
            ELSE Number(a.n + rest.n)

\* what the host function f returns for the decoded arguments
HostBody(f, args) ==
    CASE f = "rust_add" -> Ok(SumNumbers(args))
      [] f = "rust_return_undefined" -> Ok(Undefined)
      [] f = "rust_return_simple_error" -> Err(DuktapeError_from_code(DUK_ERR_TYPE_ERROR))
      [] f = "rust_return_custom_error" -> Err(DuktapeError_from_str(TxtCustomError))
      [] f = "rust_first" -> Ok(IF args = <<>> THEN Null ELSE args[1])
      [] f = "rust_panic" -> Panic("panic in host function")

\* ECMAScript ToNumber on the values in use (no string here holds a digit)
ToNumber(v) ==
    CASE v.t = "number" -> v
      [] v.t = "null" -> VNum(0)
      [] v.t = "boolean" -> VNum(IF v.b THEN 1 ELSE 0)
      [] v.t = "string" /\ v.s = <<>> -> VNum(0)
      [] OTHER -> VNaN

Param(args, i) == IF i <= Len(args) THEN args[i] ELSE VUndef

GuestSub(x, y) ==
    LET a == ToNumber(x)
        b == ToNumber(y)
    IN IF IsNaN(a) \/ IsNaN(b) THEN VNaN ELSE VNum(a.n - b.n)

\* a script function applied to its arguments: "sub" is
\* function (x, y) { return x-y; }, "id" is function (x) { return x; }
ApplyScript(body, args) ==
    CASE body = "sub" -> GuestSub(Param(args, 1), Param(args, 2))
      [] body = "id" -> Param(args, 1)

Value_(v) == [c |-> "value", v |-> v]
Throw_(code) == [c |-> "throw", v |-> VError(code)]
Native_(fn, args) == [c |-> "native", fn |-> fn, args |-> args]

\* a call of the VM value fn with the VM values args: its completion, or the
\* native function the VM has to dispatch to
GuestCall(fn, args) ==
    IF ~duk_is_callable(fn) THEN Throw_(DUK_ERR_TYPE_ERROR)
    ELSE IF fn.body = "native" THEN Native_(fn, args)
    ELSE Value_(ApplyScript(fn.body, args))

\* literal expressions: undefined, null, true, false, 2 + 3, '', 'A', 'é'
Literals == {VUndef, VNull, VBool(TRUE), VBool(FALSE), VNum(5),
             VStr(<<>>), VStr(<<65>>), VStr(<<195, 169>>)}
\* argument lists of guest call expressions: (), (2.0, 3.0), ('A'), ({})
GuestArgLists == {<<>>, <<VNum(2), VNum(3)>>, <<VStr(<<65>>)>>, <<VPlainObj>>}

SrcLit(v) == [k |-> "lit", v |-> v]
SrcBad == [k |-> "bad"]
SrcObj == [k |-> "obj"]
SrcDef(name, body) == [k |-> "def", name |-> name, body |-> body]
SrcCall(name, args) == [k |-> "call", name |-> name, args |-> args]

\* the sources: a literal, "3 +", "({})", a function declaration, a call
Sources ==
    {SrcLit(v) : v \in Literals} \cup {SrcBad, SrcObj}
    \cup {SrcDef(NameSub, "sub"), SrcDef(NameId, "id")}
    \cup {SrcCall(n, a) : n \in Names, a \in GuestArgLists}

\* what running src does: the completion and the global object after it
GuestEval(glob, src) ==
    CASE src.k = "lit" -> [comp |-> Value_(src.v), glob |-> glob]
      [] src.k = "bad" -> [comp |-> Throw_(DUK_ERR_SYNTAX_ERROR), glob |-> glob]
      [] src.k = "obj" -> [comp |-> Value_(VPlainObj), glob |-> glob]
      [] src.k = "def" ->
            [comp |-> Value_(VUndef),
             glob |-> [glob EXCEPT ![src.name] = VScriptFn(src.body)]]
      [] src.k = "call" ->
            [comp |-> IF glob[src.name] = VUndef
                      THEN Throw_(DUK_ERR_REFERENCE_ERROR)
                      ELSE GuestCall(glob[src.name], src.args),
             glob |-> glob]

\* the frame the VM gives a native function: the arguments, cut or padded
\* with undefined to the function's nargs unless it is DUK_VARARGS
NativeFrame(fn, args) ==
    IF fn.nargs = DUK_VARARGS THEN args
    ELSE [i \in 1..fn.nargs |-> Param(args, i)]

\* what the VM makes of a native function's return code rc and final frame
NativeCompletion(rc, stk) ==
    IF rc = 0 THEN Value_(VUndef)
    ELSE IF rc = 1 /\ stk # <<>> THEN Value_(At(stk, -1))
    ELSE IF rc < 0 THEN Throw_(-rc)
    ELSE Throw_(DUK_ERR_ERROR)

\* a protected run (duk_eval_raw with DUK_COMPILE_SAFE, duk_pcall): the
\* value or the error is pushed and the status returned
Protected(stk, comp) ==
    [stk |-> duk_push(stk, comp.v),
     status |-> IF comp.c = "value" THEN DUK_EXEC_SUCCESS ELSE DUK_EXEC_ERROR]

----------------------------------------------------------------------------
(* Properties of VM objects *)

\* RUST_FN_PROP, the hidden key "\xFFrfn"
RUST_FN_PROP == <<255, 114, 102, 110>>

\* duk_get_prop_string(ctx, idx, key): pushes the property, undefined if absent
duk_get_prop_string(stk, glob, idx, key) ==
    LET obj == At(stk, idx)
    IN duk_push(stk,
                IF obj = VGlobalObj THEN duk_get_prop(glob, key)
                ELSE IF obj.t = "function" /\ obj.body = "native" /\ key = RUST_FN_PROP
                THEN obj.rfn
                ELSE VUndef)

\* duk_put_prop_string(ctx, idx, key): pops the value at the top and stores it
\* under key in the object at idx
duk_put_prop_string(stk, glob, idx, key) ==
    LET val == At(stk, -1)
        obj == At(stk, idx)
        pos == Len(stk) + idx + 1
    IN IF obj = VGlobalObj
       THEN [stk |-> duk_pop(stk),
             glob |-> IF key \in DOMAIN glob THEN [glob EXCEPT ![key] = val] ELSE glob]
       ELSE IF obj.t = "function" /\ obj.body = "native" /\ key = RUST_FN_PROP
       THEN [stk |-> duk_pop([stk EXCEPT ![pos] = [obj EXCEPT !.rfn = val]]),
             glob |-> glob]
       ELSE [stk |-> duk_pop(stk), glob |-> glob]

duk_get_pointer(v) == IF v.t = "pointer" THEN v.p ELSE "null"

\* duk_pcall(ctx, nargs): the function below the nargs arguments at the top
PcallFn(stk, nargs) == At(stk, -(nargs + 1))
PcallArgs(stk, nargs) == SubSeq(stk, Len(stk) - nargs + 1, Len(stk))
PcallBase(stk, nargs) == duk_pop_n(stk, nargs + 1)

----------------------------------------------------------------------------
(* Context: eval_from, call, register as functions of the stack *)

\* Context::eval_from after duk_eval_raw has run: stk holds the value or the error
eval_from_finish(stk, status, initial_stack_height) ==
    { assert_stack_height_unchanged(initial_stack_height, o)
      : o \in pop_result(stk, status) }

RECURSIVE EncodeArgs(_, _)
\* the loop of Context::call over args; unwrap() panics on the first failure
EncodeArgs(stk, args) ==
    IF args = <<>> THEN [res |-> Ok(Undefined), stk |-> stk]
    ELSE LET e == duktape_encode(stk, Head(args))
         IN IF e.res.k = "Err"
            THEN [res |-> Panic("called unwrap() on an Err value"), stk |-> e.stk]
            ELSE EncodeArgs(e.stk, Tail(args))

\* Context::call up to duk_pcall
call_prepare(stk, glob, fn_name, args) ==
    LET s1 == duk_push(stk, VGlobalObj)
        c_str == CString_new(fn_name)
    IN IF c_str.k = "Err"
       THEN [res |-> Panic("called unwrap() on an Err value"), stk |-> s1]
       ELSE EncodeArgs(duk_get_prop_string(s1, glob, -1, c_str.v), args)

\* call without the duk_pop that removes the global object
call_finish_keeps_global(stk, status, initial_stack_height) ==
    { assert_stack_height_unchanged(initial_stack_height, o)
      : o \in pop_result(stk, status) }

\* Context::call after duk_pcall has run
call_finish(stk, status, initial_stack_height) ==
    { assert_stack_height_unchanged(
          initial_stack_height,
          [res |-> o.res, stk |-> IF o.res.k = "Panic" THEN o.stk ELSE duk_pop(o.stk)])
      : o \in pop_result(stk, status) }

None == [some |-> FALSE]
Some(n) == [some |-> TRUE, n |-> n]

\* n as duk_int_t, for a u16 n: the 16 bits zero-extended to 32; the sign bit
\* of the i32 stays clear
as_duk_int_t(n) == n % 65536

\* an arity that is the variadic marker whatever arg_count is
c_arg_count_always_varargs(arg_count) == DUK_VARARGS

\* arg_count.map(|n| n as duk_int_t).unwrap_or(DUK_VARARGS)
c_arg_count(arg_count) ==
    IF arg_count.some THEN as_duk_int_t(arg_count.n) ELSE DUK_VARARGS

\* Context::register
register(stk, glob, fn_name, f, arg_count) ==
    LET s1 == duk_push(stk, VGlobalObj)
        s2 == duk_push(s1, VNativeFn(c_arg_count(arg_count), VUndef))
        s3 == duk_push(s2, VPointer(f))
        p4 == duk_put_prop_string(s3, glob, -2, RUST_FN_PROP)
        c_str == CString_new(fn_name)
        p5 == duk_put_prop_string(p4.stk, p4.glob, -2, c_str.v)
    IN IF c_str.k = "Err"
       THEN [res |-> Panic("called unwrap() on an Err value"), stk |-> p4.stk, glob |-> p4.glob]
       ELSE LET o == assert_stack_height_unchanged(
                         duk_get_top(stk),
                         [res |-> Ok(Undefined), stk |-> duk_pop(p5.stk)])
            IN [res |-> o.res, stk |-> o.stk, glob |-> p5.glob]

\* Context::from_borrowed_mut_ptr and the Context that Context::new returns
from_borrowed_mut_ptr(ptr) == [ptr |-> ptr, owned |-> FALSE]
OwnedContext(ptr) == [ptr |-> ptr, owned |-> TRUE]

\* a new that wraps whatever duk_create_heap returned
new_wraps_null(ptr) == Ok(OwnedContext(ptr))

\* Context::new after duk_create_heap has returned ptr
new(ptr) ==
    IF ptr = "null"
    THEN Err(DuktapeError_from_str(TxtCouldNotCreateHeap))
    ELSE Ok(OwnedContext(ptr))

\* a drop that does not look at the owned flag
drop_ignores_owned(c, destroys) == [destroys EXCEPT ![c.ptr] = @ + 1]

\* Drop for Context: the duk_destroy_heap calls after dropping c
drop(c, destroys) ==
    IF c.owned THEN [destroys EXCEPT ![c.ptr] = @ + 1] ELSE destroys

----------------------------------------------------------------------------
(* rust_duk_callback, the trampoline, as functions of its frame *)

\* a recovery from one place shared by all registered functions
recover_fn_shared(stk, current_function) ==
    [res |-> Ok(Undefined), p |-> "rust_add", stk |-> stk]

\* "Recover our Rust function pointer": the pointer and the stack afterwards
recover_fn(stk, current_function) ==
    LET s1 == duk_push(stk, current_function)
        s2 == duk_get_prop_string(s1, EmptyGlobals, -1, RUST_FN_PROP)
        p == duk_get_pointer(At(s2, -1))
        s3 == duk_pop_n(s2, 2)
    IN IF p = "null"
       THEN [res |-> Panic("assertion failed: p != null_mut()"), p |-> p, stk |-> s3]
       ELSE LET o == assert_stack_height_unchanged(
                         duk_get_top(stk), [res |-> Ok(Undefined), stk |-> s3])
            IN [res |-> o.res, p |-> p, stk |-> o.stk]

RECURSIVE DecodeFrom(_, _, _, _)
\* "Coerce our arguments to Rust values": the loop from index i on
DecodeFrom(stk, arg_count, i, args) ==
    IF i >= arg_count THEN {[k |-> "ok", args |-> args]}
    ELSE UNION { IF r.k = "Ok" THEN DecodeFrom(stk, arg_count, i + 1, Append(args, r.v))
                 ELSE IF r.k = "Err" THEN {[k |-> "err", args |-> args]}
                 ELSE {[k |-> "panic", args |-> args]}
                 : r \in get(stk, i) }

\* a loop that decodes from the top of the stack downward
decode_args_from_top(stk) ==
    DecodeFrom([i \in 1..Len(stk) |-> stk[Len(stk) + 1 - i]], duk_get_top(stk), 0, <<>>)

decode_args(stk) == DecodeFrom(stk, duk_get_top(stk), 0, <<>>)

\* a boundary that catches the panic and hands on an error result
catch_panic(result) ==
    [abort |-> FALSE,
     result |-> IF result.k = "Panic" THEN Err(DuktapeError_from_code(DUK_ERR_ERROR))
                ELSE result]

\* abort_on_panic!: a panic of the body aborts the process, anything else is
\* the body's value
abort_on_panic(result) == [abort |-> result.k = "Panic", result |-> result]

\* a translation that pushes Undefined like any other value
translate_result_pushes_undefined(stk, result) ==
    IF result.k = "Ok"
    THEN [rc |-> 1, stk |-> push_old(stk, result.v)]
    ELSE IF err_message(result.e).some
    THEN [rc |-> DUK_RET_ERROR, stk |-> stk]
    ELSE [rc |-> -err_code(result.e), stk |-> stk]

\* a translation that returns the code of a code-only error as it is
translate_result_keeps_sign(stk, result) ==
    IF result.k = "Ok"
    THEN IF result.v = Undefined
         THEN [rc |-> 0, stk |-> stk]
         ELSE [rc |-> 1, stk |-> push_old(stk, result.v)]
    ELSE IF err_message(result.e).some
    THEN [rc |-> DUK_RET_ERROR, stk |-> stk]
    ELSE [rc |-> err_code(result.e), stk |-> stk]

\* "Return our result": the return code and the stack
translate_result(stk, result) ==
    IF result.k = "Ok"
    THEN IF result.v = Undefined
         THEN [rc |-> 0, stk |-> stk]
         ELSE [rc |-> 1, stk |-> push_old(stk, result.v)]
    ELSE LET code == err_code(result.e)
         IN IF err_message(result.e).some
            THEN [rc |-> DUK_RET_ERROR, stk |-> stk]
            ELSE [rc |-> -code, stk |-> stk]

----------------------------------------------------------------------------
(* The state machine *)

NoRes == [k |-> "None"]
Pending == [k |-> "Pending"]
OpRec(op, in, res, h0, h1) == [op |-> op, in |-> in, res |-> res, h0 |-> h0, h1 |-> h1]
NoOp == OpRec("none", NoRes, NoRes, 0, 0)
NoDisp == [st |-> "none"]

Init ==
    /\ heapSt = [h \in Heaps |-> "free"]
    /\ destroyed = [h \in Heaps |-> 0]
    /\ hostCtx = [h \in Heaps |-> [owner |-> FALSE, borrowed |-> 0]]
    /\ globals = [h \in Heaps |-> EmptyGlobals]
    /\ vs = [h \in Heaps |-> << <<>> >>]
    /\ cstack = <<>>
    /\ last = NoOp
    /\ disp = NoDisp
    /\ proc = "running"

Top == cstack[Len(cstack)]
CurFrame(h) == vs[h][Len(vs[h])]
SetCurFrame(h, stk) == [vs EXCEPT ![h] = [@ EXCEPT ![Len(@)] = stk]]
Depth == Cardinality({i \in 1..Len(cstack) : cstack[i].k = "tramp"})

\* the Context values the host program holds on heap h
HostContexts(h) ==
    (IF hostCtx[h].owner THEN {OwnedContext(h)} ELSE {})
    \cup (IF hostCtx[h].borrowed > 0 THEN {from_borrowed_mut_ptr(h)} ELSE {})

\* the host program is between operations and holds a Context on the live heap h
AtTop(h) ==
    /\ proc = "running"
    /\ cstack = <<>>
    /\ heapSt[h] = "live"
    /\ HostContexts(h) # {}

\* the host function rust_nested runs on heap h and has not yet used its Context
InHostBody(h) ==
    /\ proc = "running"
    /\ cstack # <<>>
    /\ Top.k = "tramp"
    /\ Top.h = h
    /\ Top.st = "HostInvoked"
    /\ Top.f = "rust_nested"
    /\ Top.nested = NoRes

\* what rust_nested does with its Context: eval("id()"), eval("({})"),
\* call("sub", [2.0, 1.0]) or register("sub", rust_add, Some(2))
NestedSources == {SrcCall(NameId, <<>>), SrcObj}
NestedCalls == {<<NameSub, <<Number(2), Number(1)>> >>}
NestedRegistrations == {<<NameSub, "rust_add", Some(2)>>}

\* some code holds a Context on h and may start an operation on it
MayOperate(h, nestedOk) == AtTop(h) \/ (InHostBody(h) /\ nestedOk)

\* the host thread's stack once an operation started in it has ended with
\* res: the host function that started it has the result
Deliver(stack, res) ==
    IF stack = <<>> THEN stack
    ELSE [stack EXCEPT ![Len(stack)].nested = res]

\* the heap states after the duk_destroy_heap calls counted in destroys
AfterDestroy(destroys) ==
    [h \in Heaps |-> IF destroys[h] > destroyed[h] THEN "destroyed" ELSE heapSt[h]]

\* Context::new: duk_create_heap returns the fresh handle h, or null when the
\* allocator fails
New(h) ==
    /\ proc = "running"
    /\ cstack = <<>>
    /\ heapSt[h] = "free"
    /\ \E ptr \in {h, "null"} :
          LET r == new(ptr)
          IN /\ last' = OpRec("new", [ptr |-> ptr], r, 0, 0)
             /\ IF r.k = "Ok"
                THEN /\ heapSt' = [heapSt EXCEPT ![h] = IF ptr = "null" THEN @ ELSE "live"]
                     /\ hostCtx' = [hostCtx EXCEPT ![h].owner = TRUE]
                ELSE UNCHANGED <<heapSt, hostCtx>>
    /\ disp' = NoDisp
    /\ UNCHANGED <<destroyed, globals, vs, cstack, proc>>

\* Context::from_borrowed_mut_ptr, called by the host on a pointer it got from as_mut_ptr
FromBorrowedMutPtr(h) ==
    /\ AtTop(h)
    /\ hostCtx[h].borrowed < MaxBorrowed
    /\ hostCtx' = [hostCtx EXCEPT ![h].borrowed = @ + 1]
    /\ last' = OpRec("from_borrowed_mut_ptr", NoRes, Ok(from_borrowed_mut_ptr(h)), 0, 0)
    /\ disp' = NoDisp
    /\ UNCHANGED <<heapSt, destroyed, globals, vs, cstack, proc>>

\* a Context of the host goes out of scope, in the normal course or while a
\* panic unwinds the host program
Drop(h, c) ==
    /\ proc \in {"running", "panicked"}
    /\ cstack = <<>>
    /\ c \in HostContexts(h)
    /\ destroyed' = drop(c, destroyed)
    /\ heapSt' = AfterDestroy(destroyed')
    /\ hostCtx' = IF c.owned THEN [hostCtx EXCEPT ![h].owner = FALSE]
                  ELSE [hostCtx EXCEPT ![h].borrowed = @ - 1]
    /\ globals' = IF heapSt'[h] = "destroyed" THEN [globals EXCEPT ![h] = EmptyGlobals]
                  ELSE globals
    /\ vs' = IF heapSt'[h] = "destroyed" THEN [vs EXCEPT ![h] = << <<>> >>] ELSE vs
    /\ last' = OpRec("drop", c, NoRes, 0, 0)
    /\ disp' = NoDisp
    /\ UNCHANGED <<cstack, proc>>

\* a public operation ends with outcome o (result and stack) in the frame it ran in
Finish(h, op, in, h0, o, frames, glob, stack) ==
    /\ vs' = [vs EXCEPT ![h] = Append(frames, o.stk)]
    /\ globals' = [globals EXCEPT ![h] = glob]
    /\ cstack' = Deliver(stack, o.res)
    /\ last' = OpRec(op, in, o.res, h0, duk_get_top(o.stk))
    /\ proc' = IF o.res.k # "Panic" THEN proc
               ELSE IF stack = <<>> THEN "panicked" ELSE "aborted"
    /\ UNCHANGED <<heapSt, destroyed, hostCtx>>

\* the frames below the current one
Below(h) == SubSeq(vs[h], 1, Len(vs[h]) - 1)

\* the trampoline's frame: fn is the function object being run, given the
\* arguments the caller supplied, entry the value stack the VM hands over
TrampFrame(h, fn, given, entry) ==
    [k |-> "tramp", h |-> h, ctx |-> from_borrowed_mut_ptr(h), st |-> "Entered",
     fn |-> fn, given |-> given, entry |-> entry, f |-> "null", dec |-> "none", args |-> <<>>,
     calls |-> 0, nested |-> NoRes, res |-> NoRes, rc |-> 0]

\* the VM calls the native function comp.fn: a new activation, and the
\* trampoline is entered; the operation op waits for it in the frame stk
EnterNative(h, op, in, h0, stk, comp) ==
    /\ Depth < MaxDepth
    /\ vs' = [vs EXCEPT ![h] = Append(Append(Below(h), stk),
                                       NativeFrame(comp.fn, comp.args))]
    /\ cstack' = cstack \o << [k |-> "op", op |-> op, in |-> in, h0 |-> h0],
                              TrampFrame(h, comp.fn, comp.args, NativeFrame(comp.fn, comp.args)) >>
    /\ last' = OpRec(op, in, Pending, h0, duk_get_top(stk))
    /\ UNCHANGED <<heapSt, destroyed, hostCtx, globals, proc>>

\* Context::eval_from (Context::eval passes the file name "<eval>")
EvalFrom(h, src) ==
    /\ MayOperate(h, src \in NestedSources)
    /\ disp' = NoDisp
    /\ LET stk == CurFrame(h)
           initial_stack_height == duk_get_top(stk)
           s1 == duk_push(stk, VStr(TxtEvalFileName))
           g == GuestEval(globals[h], src)
           base == duk_pop(s1)
           pr == Protected(base, g.comp)
       IN IF g.comp.c = "native"
          THEN EnterNative(h, "eval", src, initial_stack_height, base, g.comp)
          ELSE \E o \in eval_from_finish(pr.stk, pr.status, initial_stack_height) :
                  Finish(h, "eval", src, initial_stack_height, o, Below(h), g.glob, cstack)

\* Context::call
Call(h, fn_name, args) ==
    /\ MayOperate(h, <<fn_name, args>> \in NestedCalls)
    /\ disp' = NoDisp
    /\ LET stk == CurFrame(h)
           initial_stack_height == duk_get_top(stk)
           p == call_prepare(stk, globals[h], fn_name, args)
           nargs == Len(args)
           comp == GuestCall(PcallFn(p.stk, nargs), PcallArgs(p.stk, nargs))
           base == PcallBase(p.stk, nargs)
           pr == Protected(base, comp)
           in == [name |-> fn_name, args |-> args]
       IN IF p.res.k = "Panic"
          THEN Finish(h, "call", in, initial_stack_height, p, Below(h), globals[h], cstack)
          ELSE IF comp.c = "native"
          THEN EnterNative(h, "call", in, initial_stack_height, base, comp)
          ELSE \E o \in call_finish(pr.stk, pr.status, initial_stack_height) :
                  Finish(h, "call", in, initial_stack_height, o, Below(h), globals[h], cstack)

\* Context::register
Register(h, fn_name, f, arg_count) ==
    /\ MayOperate(h, <<fn_name, f, arg_count>> \in NestedRegistrations)
    /\ disp' = NoDisp
    /\ LET stk == CurFrame(h)
           r == register(stk, globals[h], fn_name, f, arg_count)
       IN Finish(h, "register", [name |-> fn_name, f |-> f, arg_count |-> arg_count],
                 duk_get_top(stk), r, Below(h), r.glob, cstack)

\* the trampoline is at the top of the host thread's stack, in state st
InTramp(st) ==
    /\ proc = "running"
    /\ cstack # <<>>
    /\ Top.k = "tramp"
    /\ Top.st = st

SetTop(t) == [cstack EXCEPT ![Len(cstack)] = t]

\* what a dispatch did, kept when it ends
DispRec(st, t, stk, comp) ==
    [st |-> st, f |-> t.f, fn |-> t.fn, given |-> t.given, entry |-> t.entry, dec |-> t.dec,
     args |-> t.args, calls |-> t.calls, res |-> t.res, rc |-> t.rc, stk |-> stk,
     comp |-> comp]

\* rust_duk_callback, from its entry to the end of the argument loop: the
\* borrowed Context, the function pointer, the arguments. A panic here is
\* outside abort_on_panic! and unwinds into the VM's C frames: the process
\* aborts or the panic reaches the host's frames
TrampDecodeArgs ==
    /\ InTramp("Entered")
    /\ LET t == Top
           r == recover_fn(CurFrame(t.h), t.fn)
       IN IF r.res.k = "Panic"
          THEN /\ proc' \in {"aborted", "panicked"}
               /\ UNCHANGED cstack
          ELSE \E d \in decode_args(r.stk) :
                  IF d.k = "panic"
                  THEN /\ proc' \in {"aborted", "panicked"}
                       /\ UNCHANGED cstack
                  ELSE /\ cstack' = SetTop([t EXCEPT !.st = "ArgsDecoded", !.f = r.p,
                                                     !.dec = d.k, !.args = d.args])
                       /\ UNCHANGED proc
    /\ UNCHANGED <<heapSt, destroyed, hostCtx, globals, vs, last, disp>>

\* an argument failed to decode: return DUK_RET_TYPE_ERROR; the borrowed
\* Context goes out of scope
TrampDecodeFailed ==
    /\ InTramp("ArgsDecoded")
    /\ Top.dec = "err"
    /\ cstack' = SetTop([Top EXCEPT !.st = "Returned", !.rc = DUK_RET_TYPE_ERROR])
    /\ destroyed' = drop(Top.ctx, destroyed)
    /\ heapSt' = AfterDestroy(destroyed')
    /\ UNCHANGED <<hostCtx, globals, vs, last, disp, proc>>

\* "Call our function": f(&mut ctx, &args) is entered
TrampInvoke ==
    /\ InTramp("ArgsDecoded")
    /\ Top.dec = "ok"
    /\ cstack' = SetTop([Top EXCEPT !.st = "HostInvoked", !.calls = @ + 1])
    /\ UNCHANGED <<heapSt, destroyed, hostCtx, globals, vs, last, disp, proc>>

\* what the host function of the dispatch t returns
HostResult(t) == IF t.f = "rust_nested" THEN t.nested ELSE HostBody(t.f, t.args)

\* f ends: with a panic, which abort_on_panic! turns into an abort of the
\* process, or with a result, which is translated
TrampTranslate ==
    /\ InTramp("HostInvoked")
    /\ Top.f = "rust_nested" => Top.nested # NoRes
    /\ LET t == Top
           b == abort_on_panic(HostResult(t))
           tr == translate_result(CurFrame(t.h), b.result)
       IN IF b.abort
          THEN /\ proc' = "aborted"
               /\ disp' = DispRec("aborted", [t EXCEPT !.res = b.result], CurFrame(t.h), NoRes)
               /\ UNCHANGED <<cstack, vs>>
          ELSE /\ cstack' = SetTop([t EXCEPT !.st = "ResultTranslated",
                                             !.res = b.result, !.rc = tr.rc])
               /\ vs' = SetCurFrame(t.h, tr.stk)
               /\ UNCHANGED <<proc, disp>>
    /\ UNCHANGED <<heapSt, destroyed, hostCtx, globals, last>>

\* a return that calls the host function a second time instead
TrampReturn_calls_again ==
    /\ InTramp("ResultTranslated")
    /\ cstack' = SetTop([Top EXCEPT !.st = "HostInvoked", !.calls = @ + 1])
    /\ UNCHANGED <<heapSt, destroyed, hostCtx, globals, vs, last, disp, proc>>

\* rust_duk_callback returns the code to the VM; the borrowed Context goes
\* out of scope
TrampReturn ==
    /\ InTramp("ResultTranslated")
    /\ cstack' = SetTop([Top EXCEPT !.st = "Returned"])
    /\ destroyed' = drop(Top.ctx, destroyed)
    /\ heapSt' = AfterDestroy(destroyed')
    /\ UNCHANGED <<hostCtx, globals, vs, last, disp, proc>>

\* the VM takes the return code, unwinds the activation and finishes the
\* protected call; the waiting eval_from or call runs to its end
VmReturn ==
    /\ InTramp("Returned")
    /\ LET t == Top
           h == t.h
           op == cstack[Len(cstack) - 1]
           comp == NativeCompletion(t.rc, CurFrame(h))
           caller == vs[h][Len(vs[h]) - 1]
           pr == Protected(caller, comp)
           outs == IF op.op = "eval"
                   THEN eval_from_finish(pr.stk, pr.status, op.h0)
                   ELSE call_finish(pr.stk, pr.status, op.h0)
       IN /\ disp' = DispRec("returned", t, CurFrame(h), comp)
          /\ \E o \in outs :
                Finish(h, op.op, op.in, op.h0, o, SubSeq(vs[h], 1, Len(vs[h]) - 2),
                       globals[h], SubSeq(cstack, 1, Len(cstack) - 2))

\* the host arguments of call: (), (2.0, 1.0), ("é"), and one whose encoding fails
HostArgLists == {<<>>, <<Number(2), Number(1)>>, <<String(<<233>>)>>, <<Unencodable>>}
FnNames == Names \cup {NameNul}
\* the registrations: a host function and its arg_count
Registrations ==
    {<<"rust_add", Some(2)>>, <<"rust_return_undefined", Some(0)>>,
     <<"rust_return_simple_error", Some(0)>>, <<"rust_return_custom_error", Some(0)>>,
     <<"rust_first", None>>, <<"rust_panic", Some(0)>>, <<"rust_nested", Some(0)>>}

Next ==
    \/ \E h \in Heaps : New(h)
    \/ \E h \in Heaps : FromBorrowedMutPtr(h)
    \/ \E h \in Heaps : \E c \in {OwnedContext(h), from_borrowed_mut_ptr(h)} : Drop(h, c)
    \/ \E h \in Heaps : \E src \in Sources : EvalFrom(h, src)
    \/ \E h \in Heaps : \E n \in FnNames : \E a \in HostArgLists : Call(h, n, a)
    \/ \E h \in Heaps : \E n \in FnNames : \E r \in Registrations : Register(h, n, r[1], r[2])
    \/ TrampDecodeArgs
    \/ TrampDecodeFailed
    \/ TrampInvoke
    \/ TrampTranslate
    \/ TrampReturn
    \/ VmReturn

Spec == Init /\ [][Next]_vars

\* rust_duk_callback is straight-line code on one thread: once the host
\* function has returned, the translation and the return follow
FairSpec == Spec /\ WF_vars(TrampTranslate) /\ WF_vars(TrampReturn)

----------------------------------------------------------------------------
(* The claims *)

\* a public operation of Context has just ended
Ended(op) == last.op = op /\ last.res # Pending
Returned == last.res.k \in {"Ok", "Err"}
LiveHeaps == {h \in Heaps : heapSt[h] = "live"}

\* the host Value a VM value stands for
ValueOf(v) ==
    CASE v.t = "undefined" -> Undefined
      [] v.t = "null" -> Null
      [] v.t = "boolean" -> Bool(v.b)
      [] v.t = "number" -> IF IsNaN(v) THEN NumberNaN ELSE Number(v.n)
      [] v.t = "string" -> String(from_cesu8(v.s).s)

\* text sub occurs in text
Contains(text, sub) ==
    \E i \in 0..(Len(text) - Len(sub)) : SubSeq(text, i + 1, i + Len(sub)) = sub

\* C1: every eval, call and register returns (Ok or Err, not a panic) with
\* the stack at the height it had on entry, on success and on every failure
C1_EveryOperationRestoresHeight ==
    (Ended("eval") \/ Ended("call") \/ Ended("register"))
        => Returned /\ last.h1 = last.h0

\* C2: eval of syntactically invalid source returns an error, does not
\* panic, leaves the stack as it was, and the Context is as usable as before
C2_InvalidSourceIsScriptError ==
    [][(last'.op = "eval" /\ last'.in = SrcBad)
          => /\ last'.res.k = "Err"
             /\ last'.h1 = last'.h0
             /\ proc' = "running"
             /\ vs' = vs
             /\ globals' = globals
             /\ heapSt' = heapSt
             /\ hostCtx' = hostCtx
             /\ cstack' = cstack]_vars

C2_Witness == Ended("eval") /\ last.in = SrcBad /\ last.res.k = "Err" /\ proc = "running"

\* C3: eval of a literal returns Ok of the matching Value with an equal
\* payload; a string result holds the bytes of the VM string
C3_LiteralsDecodeEqual ==
    (Ended("eval") /\ last.in.k = "lit") => last.res = Ok(ValueOf(last.in.v))

\* the script function x - y, on host numbers
ExpectedOfCall(body, args) ==
    IF body = "id" THEN (IF args = <<>> THEN Undefined ELSE args[1])
    ELSE IF Len(args) >= 2 /\ args[1].k = "Number" /\ args[2].k = "Number"
    THEN Number(args[1].n - args[2].n)
    ELSE NumberNaN

\* C4: call binds the i-th host argument to the i-th parameter of the
\* script function and returns the function's result as Ok
C4_CallBindsPositionally ==
    \A h \in LiveHeaps :
        (/\ Ended("call")
         /\ last.in.name \in Names
         /\ globals[h][last.in.name].t = "function"
         /\ globals[h][last.in.name].body # "native"
         /\ \A i \in 1..Len(last.in.args) : last.in.args[i] # Unencodable)
        => last.res = Ok(ExpectedOfCall(globals[h][last.in.name].body, last.in.args))

Stands(x, v) ==
    CASE v.k = "Undefined" -> x = VUndef
      [] v.k = "Null" -> x = VNull
      [] v.k = "Bool" -> x = VBool(v.b)
      [] v.k = "Number" -> x = (IF IsNaN(v) THEN VNaN ELSE VNum(v.n))
      [] v.k = "String" -> x.t = "string" /\ from_cesu8(x.s) = [ok |-> TRUE, s |-> v.s]

\* C6: for Ok(Undefined) the trampoline pushes nothing and returns 0, and the
\* guest call is undefined; for Ok(v) it pushes v alone and returns 1, and
\* the guest call is v (which eval hands to the host when v is no string)
C6_OkResultReachesGuest ==
    (disp.st = "returned" /\ disp.res.k = "Ok") =>
        /\ disp.comp.c = "value"
        /\ Stands(disp.comp.v, disp.res.v)
        /\ IF disp.res.v = Undefined
           THEN disp.rc = 0 /\ disp.stk = disp.entry
           ELSE /\ disp.rc = 1
                /\ Len(disp.stk) = Len(disp.entry) + 1
                /\ SubSeq(disp.stk, 1, Len(disp.entry)) = disp.entry
                /\ Stands(At(disp.stk, -1), disp.res.v)
        /\ (Ended("eval") /\ disp.res.v.k # "String") => last.res = Ok(disp.res.v)

C6_Witness ==
    /\ Ended("eval")
    /\ disp.st = "returned"
    /\ disp.f = "rust_add"
    /\ disp.args = <<Number(2), Number(3)>>
    /\ disp.fn.nargs = 2
    /\ last.res = Ok(Number(5))

\* C7: for an error with a code and no message the trampoline returns the
\* negated code and pushes nothing, the guest call throws, and the eval or
\* call around it returns Err
C7_CodeOnlyErrorFailsCall ==
    (disp.st = "returned" /\ disp.res.k = "Err" /\ ~disp.res.e.hasMsg) =>
        /\ disp.rc = -disp.res.e.code
        /\ disp.rc < 0
        /\ disp.stk = disp.entry
        /\ disp.comp = Throw_(disp.res.e.code)
        /\ last.res.k = "Err"

C7_Witness ==
    /\ Ended("eval")
    /\ disp.st = "returned"
    /\ disp.f = "rust_return_simple_error"
    /\ disp.rc = DUK_RET_TYPE_ERROR
    /\ last.res.k = "Err"

\* C8: for an error with a message the guest sees a thrown error, and the
\* eval or call around it returns an error whose text contains the message
C8_MessageReachesHost ==
    (disp.st = "returned" /\ disp.res.k = "Err" /\ disp.res.e.hasMsg) =>
        /\ disp.comp.c = "throw"
        /\ last.res.k = "Err"
        /\ Contains(last.res.e.msg, disp.res.e.msg)

\* a frame of the host thread runs a host function that panics
FaultIn(t) == t.k = "tramp" /\ t.st # "Entered" /\ t.dec = "ok"
              /\ HostResult(t).k = "Panic"

C10_HeapDestroyedOnceByOwner ==
    \A h \in Heaps :
        /\ destroyed[h] <= 1
        /\ hostCtx[h].owner => destroyed[h] = 0 /\ heapSt[h] = "live"
        /\ heapSt[h] = "free" => destroyed[h] = 0 /\ ~hostCtx[h].owner
        /\ heapSt[h] = "destroyed" <=> destroyed[h] = 1
        /\ (heapSt[h] # "free" /\ ~hostCtx[h].owner) => destroyed[h] = 1

C10_Witness ==
    /\ last.op = "drop"
    /\ ~last.in.owned
    /\ destroyed[last.in.ptr] = 1
    /\ heapSt[last.in.ptr] = "destroyed"

\* C11: new returns Ok of an owned Context on the fresh handle when
\* duk_create_heap returns one, and an error when it returns null; after the
\* error the host holds no Context and nothing has been destroyed
C11_NewOwnsHeapOrFails ==
    last.op = "new" =>
        IF last.in.ptr = "null"
        THEN /\ last.res = Err(DuktapeError_from_str(TxtCouldNotCreateHeap))
             /\ \A h \in Heaps :
                   heapSt[h] = "free" =>
                       /\ HostContexts(h) = {}
                       /\ destroyed[h] = 0
        ELSE /\ last.res = Ok(OwnedContext(last.in.ptr))
             /\ heapSt[last.in.ptr] = "live"
             /\ destroyed[last.in.ptr] = 0
             /\ OwnedContext(last.in.ptr) \in HostContexts(last.in.ptr)

C11_Witness ==
    /\ last.op = "new"
    /\ last.in.ptr = "null"
    /\ last.res.k = "Err"
    /\ \A h \in Heaps : heapSt[h] = "free" /\ HostContexts(h) = {}

\* C12: a Value pushed as a call argument (push_old through the encoder) and
\* decoded from that slot by get comes back as Ok of an equal Value: the
\* arguments a variadic host function receives are those call was given
C12_PushThenGetIsEqual ==
    (/\ last.op = "call"
     /\ disp.st = "returned"
     /\ disp.fn.nargs = DUK_VARARGS)
    => /\ disp.dec = "ok"
       /\ disp.args = last.in.args

\* the u16 values at the edges of the 15-, 16- and 32-bit ranges
U16Edges == {0, 1, 2, 32767, 32768, 65535}

\* C13: register installs under the name a native function whose arity is the
\* variadic marker for None and n for Some(n), never the marker for a u16 n;
\* a variadic host function receives as many arguments as the caller supplied
\* and one registered with Some(n) receives n, whatever the caller supplied
C13_ArityIsEnforced ==
    /\ \A n \in U16Edges : c_arg_count(Some(n)) = n /\ c_arg_count(Some(n)) # DUK_VARARGS
    /\ c_arg_count(None) = DUK_VARARGS
    /\ \A h \in LiveHeaps :
          (Ended("register") /\ Returned) =>
              globals[h][last.in.name] =
                  VNativeFn(IF last.in.arg_count.some THEN last.in.arg_count.n
                            ELSE DUK_VARARGS,
                            VPointer(last.in.f))
    /\ (disp.st = "returned" /\ disp.dec = "ok") =>
          IF disp.fn.nargs = DUK_VARARGS
          THEN Len(disp.args) = Len(disp.given)
          ELSE Len(disp.args) = disp.fn.nargs

C13_Witness ==
    /\ disp.st = "returned"
    /\ disp.dec = "ok"
    /\ disp.fn.nargs = 2
    /\ disp.given = <<>>
    /\ disp.args = <<Undefined, Undefined>>

\* the Values get can make of the VM value v
Decodable(v) == duk_get_type(v) \in {"undefined", "null", "boolean", "number", "string"}

\* C14: when an argument does not decode (a string that does not transcode,
\* or a value of another VM type, such as an object) the dispatch ends at
\* once with DUK_RET_TYPE_ERROR and the host function is not invoked
C14_DecodeFailureIsTypeError ==
    /\ \A i \in 1..Len(cstack) :
          LET t == cstack[i]
          IN t.k = "tramp" =>
                /\ t.st = "Entered" => proc = "running"
                /\ t.st \in {"HostInvoked", "ResultTranslated"} =>
                      /\ t.dec = "ok"
                      /\ \A j \in 1..Len(t.entry) : Decodable(t.entry[j])
                /\ (t.st # "Entered" /\ \E j \in 1..Len(t.entry) : ~Decodable(t.entry[j]))
                      => t.dec = "err"
                /\ (t.st = "Returned" /\ t.dec = "err") =>
                      t.rc = DUK_RET_TYPE_ERROR /\ t.res = NoRes
    /\ (disp.st = "returned" /\ disp.dec = "err") =>
          /\ disp.rc = DUK_RET_TYPE_ERROR
          /\ disp.res = NoRes
          /\ disp.comp = Throw_(DUK_ERR_TYPE_ERROR)

\* one step of a dispatch, from frame t to frame u
DispatchStep(t, u) ==
    \/ u.st = t.st
    \/ <<t.st, u.st>> \in {<<"Entered", "ArgsDecoded">>, <<"ArgsDecoded", "HostInvoked">>,
                            <<"HostInvoked", "ResultTranslated">>,
                            <<"ResultTranslated", "Returned">>}
    \/ /\ <<t.st, u.st>> \in {<<"ArgsDecoded", "Returned">>, <<"HostInvoked", "Returned">>}
       /\ u.rc < 0

\* the host function of the dispatch at the top has returned
HostReturned(n) ==
    /\ proc = "running"
    /\ Len(cstack) = n
    /\ Top.k = "tramp"
    /\ Top.st = "HostInvoked"
    /\ HostResult(Top).k \in {"Ok", "Err"}

\* C15: a dispatch goes through Entered, ArgsDecoded, HostInvoked,
\* ResultTranslated, Returned in this order, or leaves ArgsDecoded or
\* HostInvoked for Returned with a failure status; the host function is
\* invoked at most once; a dispatch whose host function returns reaches Returned
C15_DispatchOrder ==
    /\ [][\A i \in 1..Len(cstack') :
             cstack'[i].k = "tramp" =>
                 IF i <= Len(cstack)
                 THEN cstack[i].k = "tramp" /\ DispatchStep(cstack[i], cstack'[i])
                 ELSE cstack'[i].st = "Entered" /\ cstack'[i].calls = 0]_vars
    /\ [](\A i \in 1..Len(cstack) :
             cstack[i].k = "tramp" =>
                 /\ cstack[i].calls <= 1
                 /\ cstack[i].calls = 1 <=>
                       \/ cstack[i].st \in {"HostInvoked", "ResultTranslated"}
                       \/ cstack[i].st = "Returned" /\ cstack[i].dec = "ok")
    /\ \A n \in 1..(2 * MaxDepth) :
          HostReturned(n) ~> (Len(cstack) = n /\ Top.k = "tramp" /\ Top.st = "Returned")

C15_Witness ==
    /\ cstack # <<>>
    /\ Top.k = "tramp"
    /\ Top.st = "Returned"
    /\ Top.calls = 1
    /\ Top.res.k = "Ok"

\* C16: the host function gets as many arguments as the VM reports, and its
\* i-th argument is what get makes of stack slot i: none moved, left out or
\* repeated; a failed decoding stops at the first slot that fails
C16_ArgumentsInStackOrder ==
    \A k \in 1..Len(cstack) :
        LET t == cstack[k]
        IN (t.k = "tramp" /\ t.st # "Entered") =>
              /\ t.dec = "ok" => Len(t.args) = duk_get_top(t.entry)
              /\ t.dec = "err" =>
                    /\ Len(t.args) < duk_get_top(t.entry)
                    /\ \E r \in get(t.entry, Len(t.args)) : r.k = "Err"
              /\ \A i \in 1..Len(t.args) :
                    /\ Ok(t.args[i]) \in get(t.entry, i - 1)
                    /\ t.entry[i].t # "string" => Stands(t.entry[i], t.args[i])

C16_Witness ==
    /\ cstack # <<>>
    /\ Top.k = "tramp"
    /\ Top.st = "HostInvoked"
    /\ Top.entry = <<VNum(2), VNum(3)>>
    /\ Top.args = <<Number(2), Number(3)>>

\* the completion the VM reported to the eval or call that ended last: that of
\* the dispatch it waited for, or of the source it ran
CompletionOf(h) ==
    IF disp.st = "returned" THEN disp.comp ELSE GuestEval(globals[h], last.in).comp

\* C17: eval and call return Ok exactly when the VM's status is the success
\* code, with the value at the stack top decoded; for any other status they
\* return an error with the text the VM renders for the error at the stack
\* top; one entry is popped in both cases
C17_StatusDecidesResult ==
    \A h \in LiveHeaps :
        (/\ Ended("eval") \/ Ended("call")
         /\ disp.st = "returned" \/ (last.op = "eval" /\ last.in.k \in {"lit", "bad", "obj"}))
        => LET pr == Protected(<<>>, CompletionOf(h))
               top == At(pr.stk, -1)
           IN /\ last.res.k = "Ok" <=> pr.status = DUK_EXEC_SUCCESS
              /\ last.res.k = "Err" <=> pr.status # DUK_EXEC_SUCCESS
              /\ last.h1 = last.h0
              /\ last.res.k = "Ok" => last.res.v = ValueOf(top)
              /\ last.res.k = "Err" =>
                    last.res.e = DuktapeError_from_str(from_cesu8(duk_safe_to_lstring(top)).s)

\* the text of a String Value as the host reads it now, given the current
\* value stack: its own copy, or the VM string it borrows, if that is still there
Dangling == <<-1>>
Resolve(v, stk) ==
    IF "s" \in DOMAIN v THEN v.s
    ELSE IF v.at \in 1..Len(stk) /\ stk[v.at].t = "string" THEN stk[v.at].s
    ELSE Dangling

\* the String Values host code holds: the result of the eval or call that
\* returned last and the arguments of the host functions in flight
HeldStrings ==
    { v \in (IF last.op \in {"eval", "call"} /\ last.res.k = "Ok" THEN {last.res.v} ELSE {})
             \cup UNION { {cstack[i].args[j] : j \in 1..Len(cstack[i].args)}
                          : i \in {n \in 1..Len(cstack) : cstack[n].k = "tramp"} }
      : v.k = "String" }

\* C18: a decoded Value holds its own copy of a string: the result of eval and
\* call and the arguments of a host function can be read after the slot they
\* were decoded from is popped, and no later change of the stack changes them
C18_ValuesAreSelfContained ==
    /\ [](\A h \in LiveHeaps : \A v \in HeldStrings :
             /\ "s" \in DOMAIN v
             /\ Resolve(v, CurFrame(h)) # Dangling)
    /\ [][\A h \in LiveHeaps : \A v \in HeldStrings :
             (v \in HeldStrings' /\ heapSt'[h] = "live")
                 => Resolve(v, vs'[h][Len(vs'[h])]) = Resolve(v, CurFrame(h))]_vars

C18_Witness ==
    /\ Ended("eval")
    /\ last.in.k = "lit"
    /\ last.res.k = "Ok"
    /\ last.res.v.k = "String"
    /\ Len(last.res.v.s) > 0
    /\ last.h1 = 0

\* C19: the global of a name changes only when that name is registered (to a
\* function object holding the registered pointer) or declared by a script; a
\* guest call of a name runs the function object the name holds then; the
\* trampoline recovers the pointer stored in that object, never null and
\* never another object's, and leaves the stack as it found it
C19_RecoversRegisteredFunction ==
    /\ [][\A h \in Heaps : \A n \in Names :
             (heapSt'[h] = "live" /\ globals'[h][n] # globals[h][n]) =>
                 \/ /\ last'.op = "register"
                    /\ last'.in.name = n
                    /\ globals'[h][n].body = "native"
                    /\ globals'[h][n].rfn = VPointer(last'.in.f)
                 \/ /\ last'.op = "eval"
                    /\ last'.in = SrcDef(n, globals'[h][n].body)]_vars
    /\ [][Len(cstack') > Len(cstack) =>
             LET t == cstack'[Len(cstack')]
                 op == cstack'[Len(cstack') - 1]
             IN /\ t.k = "tramp"
                /\ t.fn = globals[t.h][op.in.name]
                /\ t.fn.body = "native"]_vars
    /\ [](\A i \in 1..Len(cstack) :
             LET t == cstack[i]
             IN (t.k = "tramp" /\ t.st # "Entered") =>
                   /\ t.f # "null"
                   /\ t.f \in HostFns
                   /\ t.fn.rfn = VPointer(t.f)
                   /\ recover_fn(t.entry, t.fn).res = Ok(Undefined)
                   /\ recover_fn(t.entry, t.fn).stk = t.entry)

C19_Witness ==
    \E h \in LiveHeaps :
        /\ cstack # <<>>
        /\ Top.k = "tramp"
        /\ Top.st = "ArgsDecoded"
        /\ globals[h][NameSub] = VNativeFn(2, VPointer("rust_add"))
        /\ globals[h][NameId] = Top.fn
        /\ Top.f = "rust_first"

\* an operation a host function started on its borrowed Context has ended
NestedEnded ==
    /\ cstack # <<>>
    /\ last.op \in {"eval", "call", "register"}
    /\ last.res # Pending

\* C20: in a chain guest to host to guest, every operation a host function
\* runs on its borrowed Context returns with the stack at the height of its
\* own entry, the drop of a borrowed Context at the trampoline's return leaves
\* the heap live, and the outermost operation returns at its entry height
C20_NestedOperationsRestoreHeight ==
    /\ NestedEnded => Returned /\ last.h1 = last.h0
    /\ \A i \in 1..Len(cstack) :
          (cstack[i].k = "tramp" /\ cstack[i].st = "Returned") =>
              heapSt[cstack[i].h] = "live" /\ destroyed[cstack[i].h] = 0
    /\ (cstack = <<>> /\ disp.st = "returned" /\ disp.f = "rust_nested") =>
          Returned /\ last.h1 = last.h0

====
